---- MODULE Spec2Model ----
(***************************************************************************)
(* Model of the option pricing library (options.h / options.cpp):          *)
(* FinancialCalculator (Black-Scholes, Greeks, Monte Carlo), Option and    *)
(* CalculateStrategy.                                                      *)
(*                                                                         *)
(* Numbers.  Prices handled by Option / CalculateStrategy are modelled as  *)
(* integers (finite doubles on which + - max are exact).  Inside           *)
(* calculateMonteCarlo doubles are records [k, v]: k = "fin" with integer  *)
(* v, k = "inf" with sign v, or k = "nan", so that log(0), x/0 and 0*inf   *)
(* have the IEEE-754 outcome.  Time is counted in ticks, TicksPerDay ticks *)
(* to a day (1/365 year), so a time shorter than one day is representable. *)
(* A uniform sample is an index u in 0..UGrid-1 standing for the double    *)
(* u/UGrid of [0,1).  exp/log/sqrt/cos are quantised: the daily factor     *)
(* exp(drift + diffusion) is a power of two.                               *)
(***************************************************************************)
EXTENDS Integers, Sequences, FiniteSets, TLC

\* ---------------------------------------------------------------- bounds
MaxSims == 2          \* largest number_of_simulations
MaxDays == 2          \* largest total_days
UGrid == 3            \* number of distinct uniform samples k/UGrid
TicksPerDay == 2      \* resolution of time: ticks per simulated day
MaxStrike == 3        \* strikes of Option legs are 1..MaxStrike
MaxSpot == 4          \* spot prices are 0..MaxSpot

\* ------------------------------------------------------------ enumerations
OptionType == {"Call", "Put"}
\* an OptionType object can hold a value outside the enumerators
OptionTypeValues == OptionType \cup {"Invalid"}
Greeks == {"Delta", "Gamma", "Theta", "Vega", "Rho"}
GreeksValues == Greeks \cup {"Invalid"}

\* ----------------------------------------------------- outcomes of a call
Value(x) == [kind |-> "value", val |-> x]
RuntimeError(msg) == [kind |-> "runtime_error", val |-> msg]
InvalidArgument(msg) == [kind |-> "invalid_argument", val |-> msg]

\* ------------------------------------------------- doubles (IEEE-754 shape)
Fin(x) == [k |-> "fin", v |-> x]
PosInf == [k |-> "inf", v |-> 1]
NegInf == [k |-> "inf", v |-> -1]
NaN == [k |-> "nan", v |-> 0]

Sign(x) == IF x > 0 THEN 1 ELSE IF x < 0 THEN -1 ELSE 0

\* a < b on doubles: false as soon as one side is NaN
DLess(a, b) ==
    /\ a.k # "nan"
    /\ b.k # "nan"
    /\ CASE a.k = "fin" /\ b.k = "fin" -> a.v < b.v
         [] a.k = "inf" /\ b.k = "inf" -> a.v < b.v
         [] a.k = "inf" -> a.v < 0
         [] OTHER -> b.v > 0

DAdd(a, b) ==
    CASE a.k = "nan" \/ b.k = "nan" -> NaN
      [] a.k = "fin" /\ b.k = "fin" -> Fin(a.v + b.v)
      [] a.k = "inf" /\ b.k = "inf" -> IF a.v = b.v THEN a ELSE NaN
      [] a.k = "inf" -> a
      [] OTHER -> b

DNeg(a) == IF a.k = "nan" THEN NaN ELSE [k |-> a.k, v |-> -a.v]

DSub(a, b) == DAdd(a, DNeg(b))

DMul(a, b) ==
    CASE a.k = "nan" \/ b.k = "nan" -> NaN
      [] a.k = "fin" /\ b.k = "fin" -> Fin(a.v * b.v)
      [] OTHER -> IF a.v = 0 \/ b.v = 0
                  THEN NaN
                  ELSE [k |-> "inf", v |-> Sign(a.v) * Sign(b.v)]

\* a / n for a double a and a count n converted to double; finite quotients
\* are rounded down to the integer grid
DDiv(a, n) ==
    CASE a.k = "nan" -> NaN
      [] n = 0 -> IF a.v = 0 THEN NaN ELSE [k |-> "inf", v |-> Sign(a.v)]
      [] a.k = "inf" -> a
      [] OTHER -> Fin(a.v \div n)

\* std::max(a, b) == (a < b) ? b : a
StdMax(a, b) == IF DLess(a, b) THEN b ELSE a

Pow2(n) == IF n <= 0 THEN 1 ELSE 2 ^ n

\* -------------------------------------------------------- input domains
\* time in ticks; -1 and 1 are a negative time and a time shorter than a day
Times == -1 .. (MaxDays * TicksPerDay)
Volatilities == {-1, 0, 1}
Rates == {0, 1}
Strikes == 1 .. MaxStrike
Premiums == {0, 1}
Spots == 0 .. MaxSpot

\* BlackScholesParams; underlying_price, strike_price and paid_price are
\* fixed because no branch of the evaluators tests them
BlackScholesParams ==
    [interest_rate : {0}, underlying_price : {8}, strike_price : {6},
     time : Times, volatility : Volatilities,
     option_type : OptionTypeValues, paid_price : {5}]

GreeksParams ==
    [interest_rate : {0}, underlying_price : {8}, strike_price : {6},
     time : Times, volatility : Volatilities,
     option_type : OptionTypeValues, paid_price : {5}, dividend_yield : {0}]

MonteCarloParams ==
    [number_of_simulations : 0 .. MaxSims, interest_rate : Rates,
     underlying_price : {8}, strike_price : {6},
     time : Times, volatility : {0, 1},
     option_type : OptionTypeValues, paid_price : {5}]

Options == [strike_ : Strikes, premium_ : Premiums, option_type_ : OptionTypeValues]

\* ------------------------------------------------- FinancialCalculator
\* The value returned is named by the formula of the branch that computed
\* it: d1, d2, normalCdf and normalPdf never throw.
calculateBlackScholes(p) ==
    CASE p.option_type = "Call" -> Value("S*N(d1) - K*exp(-rT)*N(d2)")
      [] p.option_type = "Put" -> Value("K*exp(-rT)*N(-d2) - S*N(-d1)")
      [] OTHER -> InvalidArgument("[!] Invalid option type: must be Call or Put.")

\* the switch over the selector, after the validation
GreekValue(p, greek) ==
    CASE greek = "Delta" ->
             IF p.option_type = "Call"
             THEN Value("dividend_discount*N(d1)")
             ELSE Value("dividend_discount*(N(d1)-1)")
      [] greek = "Gamma" -> Value("dividend_discount*pdf(d1)/(S*sigma*sqrt(T))")
      [] greek = "Theta" ->
             IF p.option_type = "Call"
             THEN Value("theta_part1 + call theta_part2")
             ELSE Value("theta_part1 + put theta_part2")
      [] greek = "Vega" -> Value("S*dividend_discount*pdf(d1)*sqrt(T)")
      [] greek = "Rho" ->
             IF p.option_type = "Call"
             THEN Value("K*T*discount*N(d2)")
             ELSE Value("-K*T*discount*N(-d2)")
      [] OTHER -> InvalidArgument("[!] Invalid Greek specified")

\* calculateGreeks with the validation written with < instead of <=
calculateGreeksStrict(p, greek) ==
    IF p.time < 0 THEN RuntimeError("[!] Time must be positive")
    ELSE IF p.volatility < 0 THEN RuntimeError("[!] Volatility must be positive")
    ELSE GreekValue(p, greek)

calculateGreeks(p, greek) ==
    IF p.time <= 0 THEN RuntimeError("[!] Time must be positive")
    ELSE IF p.volatility <= 0 THEN RuntimeError("[!] Volatility must be positive")
    ELSE GreekValue(p, greek)

\* ------------------------------------------------------------- Option
Max(a, b) == IF a < b THEN b ELSE a

\* calculatePayoff with the premium forgotten in the Put branch
calculatePayoffPutGross(opt, spotPrice) ==
    IF opt.option_type_ = "Call"
    THEN Max(spotPrice - opt.strike_, 0) - opt.premium_
    ELSE Max(opt.strike_ - spotPrice, 0)

calculatePayoff(opt, spotPrice) ==
    IF opt.option_type_ = "Call"
    THEN Max(spotPrice - opt.strike_, 0) - opt.premium_
    ELSE Max(opt.strike_ - spotPrice, 0) - opt.premium_

\* -------------------------------------------------- CalculateStrategy
getPutSpread(long_put, short_put, spotPrice) ==
    IF long_put.strike_ <= short_put.strike_
    THEN RuntimeError("[!] Long put strike should be higher than short put strike")
    ELSE Value(calculatePayoff(long_put, spotPrice) - calculatePayoff(short_put, spotPrice))

getCallSpread(long_call, short_call, spotPrice) ==
    IF long_call.strike_ >= short_call.strike_
    THEN RuntimeError("[!] Long call strike should be lower than short call strike")
    ELSE Value(calculatePayoff(long_call, spotPrice) - calculatePayoff(short_call, spotPrice))

\* getButterfly accepting equal strikes (> instead of >=)
getButterflyNonStrict(wing1, body, wing2, spotPrice) ==
    IF wing1.strike_ > body.strike_ \/ body.strike_ > wing2.strike_
    THEN RuntimeError("[!] Strikes should be in ascending order")
    ELSE Value(calculatePayoff(wing1, spotPrice) - 2 * calculatePayoff(body, spotPrice)
               + calculatePayoff(wing2, spotPrice))

getButterfly(wing1, body, wing2, spotPrice) ==
    IF wing1.strike_ >= body.strike_ \/ body.strike_ >= wing2.strike_
    THEN RuntimeError("[!] Strikes should be in ascending order")
    ELSE Value(calculatePayoff(wing1, spotPrice) - 2 * calculatePayoff(body, spotPrice)
               + calculatePayoff(wing2, spotPrice))

getStrangle(put, call, spotPrice) ==
    IF put.strike_ >= call.strike_
    THEN RuntimeError("[!] Put strike should be lower than Call strike")
    ELSE Value(calculatePayoff(put, spotPrice) + calculatePayoff(call, spotPrice))

getStraddle(put, call, spotPrice) ==
    IF put.strike_ # call.strike_
    THEN RuntimeError("For Straddle, Put and Call strikes should be the same")
    ELSE Value(calculatePayoff(put, spotPrice) + calculatePayoff(call, spotPrice))

\* ------------------------------------------------------ RandomGenerator
\* RandomGenerator<double>(0.0, 1.0): its own engine, seeded at construction;
\* draws counts how far the engine has advanced
NewRandomGenerator == [alive |-> TRUE, draws |-> 0]
NoGenerator == [alive |-> FALSE, draws |-> 0]
\* std::uniform_real_distribution<double>(0.0, 1.0) samples [0, 1):
\* index u stands for u/UGrid, so 0.0 is a sample and 1.0 is not
UniformValues == 0 .. (UGrid - 1)
NoDraw == -1

\* -------------------------------------------------- calculateMonteCarlo
\* static_cast<std::size_t>(time * 365.0): truncation toward zero; undefined
\* (any count) when the truncated value is negative
TotalDaysOutcomes(time) ==
    IF time >= 0 THEN {time \div TicksPerDay}
    ELSE IF -time < TicksPerDay THEN {0}
    ELSE 0 .. MaxDays

\* time / total_days: division by zero is undefined in C++; an IEEE-754
\* build yields +-inf or NaN, any other double is allowed too
TimeStepOutcomes(time, days) ==
    IF days > 0 THEN {Fin(time \div days)}
    ELSE {PosInf, NegInf, NaN, Fin(0)}

\* std::log(u1), quantised: -inf at 0, a negative level otherwise
LogUniform(u) == IF u = 0 THEN NegInf ELSE Fin(IF 2 * u < UGrid THEN -2 ELSE -1)

\* std::sqrt(-2.0 * std::log(u1)), on the same levels
Radius(u) == DNeg(LogUniform(u))

\* std::cos(2.0 * MATH_PI * u2), quantised to its sign
CosTwoPi(u) == Fin(IF 4 * u <= UGrid \/ 4 * u > 3 * UGrid THEN 1 ELSE -1)

\* random_normal
BoxMuller(a, b) == DMul(Radius(a), CosTwoPi(b))

\* time_step as a factor of drift, and std::sqrt(time_step), in days
TimeStepUnit(ts) == IF ts.k = "fin" THEN Fin(Sign(ts.v)) ELSE ts
SqrtTimeStep(ts) ==
    CASE ts.k = "fin" -> IF ts.v < 0 THEN NaN ELSE Fin(Sign(ts.v))
      [] ts.k = "inf" -> IF ts.v > 0 THEN PosInf ELSE NaN
      [] OTHER -> NaN

Drift(p, ts) ==
    DMul(Fin(p.interest_rate - ((p.volatility * p.volatility) \div 2)), TimeStepUnit(ts))
Diffusion(p, ts, z) == DMul(DMul(Fin(p.volatility), SqrtTimeStep(ts)), z)

\* price *= std::exp(x), exp quantised to a power of two
TimesExp(price, x) ==
    CASE x.k = "nan" -> NaN
      [] x.k = "inf" -> IF x.v > 0 THEN DMul(price, PosInf) ELSE DMul(price, Fin(0))
      [] price.k # "fin" -> price
      [] x.v >= 0 -> Fin(price.v * Pow2(x.v))
      [] OTHER -> Fin(price.v \div Pow2(-x.v))

\* one day of geometric Brownian motion
GbmStep(price, p, ts, a, b) ==
    TimesExp(price, DAdd(Drift(p, ts), Diffusion(p, ts, BoxMuller(a, b))))

\* PathPayoff without the floor at zero (price - strike, strike - price)
PathPayoffNoFloor(price, p) ==
    CASE p.option_type = "Call" -> DSub(price, Fin(p.strike_price))
      [] p.option_type = "Put" -> DSub(Fin(p.strike_price), price)
      [] OTHER -> Fin(0)

\* the terminal payoff of one path
PathPayoff(price, p) ==
    CASE p.option_type = "Call" -> StdMax(DSub(price, Fin(p.strike_price)), Fin(0))
      [] p.option_type = "Put" -> StdMax(DSub(Fin(p.strike_price), price), Fin(0))
      [] OTHER -> Fin(0)

\* average_payoff * discount_factor, exp(-interest_rate * time) kept symbolic
DiscountedAverage(total, p) ==
    [average_payoff |-> DDiv(total, p.number_of_simulations),
     discount_rate |-> p.interest_rate, discount_time |-> p.time]

\* --------------------------------------------------------------- state
VARIABLES
    pc,               \* position inside calculateMonteCarlo, "idle" outside
    params,           \* the MonteCarloParams of the running call
    gen,              \* random_generator_uniform
    total_payoff, underlying_price, total_days, time_step,
    i, day, u1, u2,   \* loop counters and the two samples of a day
    adds,             \* history: executions of total_payoff += payoff
    time_step_used,   \* history: time_step has been read
    last              \* the call that returned last, until the caller takes it

vars == <<pc, params, gen, total_payoff, underlying_price, total_days, time_step,
          i, day, u1, u2, adds, time_step_used, last>>

locals == <<pc, params, gen, total_payoff, underlying_price, total_days, time_step,
            i, day, u1, u2, adds, time_step_used>>

NoCall == [op |-> "none"]
NoParams == [number_of_simulations |-> 0, interest_rate |-> 0, underlying_price |-> 0,
             strike_price |-> 0, time |-> 0, volatility |-> 0,
             option_type |-> "Call", paid_price |-> 0]

Init ==
    /\ pc = "idle"
    /\ params = NoParams
    /\ gen = NoGenerator
    /\ total_payoff = Fin(0)
    /\ underlying_price = Fin(0)
    /\ total_days = 0
    /\ time_step = Fin(0)
    /\ i = 0
    /\ day = 0
    /\ u1 = NoDraw
    /\ u2 = NoDraw
    /\ adds = 0
    /\ time_step_used = FALSE
    /\ last = NoCall

Idle == pc = "idle" /\ last.op = "none"

\* ------------------------------------------- calls of the pure evaluators
DoBlackScholes ==
    /\ Idle
    /\ \E p \in BlackScholesParams :
         last' = [op |-> "calculateBlackScholes", args |-> p,
                  result |-> calculateBlackScholes(p)]
    /\ UNCHANGED locals

DoGreeks ==
    /\ Idle
    /\ \E p \in GreeksParams, greek \in GreeksValues :
         last' = [op |-> "calculateGreeks", args |-> p, greek |-> greek,
                  result |-> calculateGreeks(p, greek)]
    /\ UNCHANGED locals

\* the caller takes the returned value (or catches the exception)
TakeResult ==
    /\ pc = "idle"
    /\ last.op # "none"
    /\ last' = NoCall
    /\ UNCHANGED locals

\* ---------------------------------------- calculateMonteCarlo, step by step
\* entry: the generator is constructed, the locals are initialised
MCEnter ==
    /\ Idle
    /\ \E p \in MonteCarloParams :
         /\ params' = p
         /\ underlying_price' = Fin(p.underlying_price)
         /\ \E d \in TotalDaysOutcomes(p.time) :
              /\ total_days' = d
              /\ time_step' \in TimeStepOutcomes(p.time, d)
    /\ gen' = NewRandomGenerator
    /\ total_payoff' = Fin(0)
    /\ i' = 0
    /\ pc' = "path"
    /\ UNCHANGED <<day, u1, u2, adds, time_step_used, last>>

\* MCPathLoop with the day loop entered before its test (do-while)
MCPathLoopDoWhile ==
    /\ pc = "path"
    /\ IF i < params.number_of_simulations
       THEN /\ underlying_price' = Fin(params.underlying_price)
            /\ day' = 0
            /\ pc' = "u1"
       ELSE /\ pc' = "finish"
            /\ UNCHANGED <<underlying_price, day>>
    /\ UNCHANGED <<params, gen, total_payoff, total_days, time_step, i, u1, u2,
                   adds, time_step_used, last>>

\* MCPathLoop without the reset of the running price
MCPathLoopNoReset ==
    /\ pc = "path"
    /\ IF i < params.number_of_simulations
       THEN /\ day' = 0
            /\ pc' = IF 0 < total_days THEN "u1" ELSE "payoff"
       ELSE /\ pc' = "finish"
            /\ UNCHANGED day
    /\ UNCHANGED <<params, gen, total_payoff, underlying_price, total_days, time_step,
                   i, u1, u2, adds, time_step_used, last>>

\* MCPathLoop that never leaves the path loop (i <= i as the test)
MCPathLoopForever ==
    /\ pc = "path"
    /\ underlying_price' = Fin(params.underlying_price)
    /\ day' = 0
    /\ pc' = IF 0 < total_days THEN "u1" ELSE "path"
    /\ UNCHANGED <<params, gen, total_payoff, total_days, time_step, i, u1, u2,
                   adds, time_step_used, last>>

\* for (i ...; i < number_of_simulations; ...): the test, then the reset of
\* the running price and the first test of the day loop
MCPathLoop ==
    /\ pc = "path"
    /\ IF i < params.number_of_simulations
       THEN /\ underlying_price' = Fin(params.underlying_price)
            /\ day' = 0
            /\ pc' = IF 0 < total_days THEN "u1" ELSE "payoff"
       ELSE /\ pc' = "finish"
            /\ UNCHANGED <<underlying_price, day>>
    /\ UNCHANGED <<params, gen, total_payoff, total_days, time_step, i, u1, u2,
                   adds, time_step_used, last>>

\* const double u1 = random_generator_uniform.getRandomValue();
MCDrawU1 ==
    /\ pc = "u1"
    /\ gen.alive
    /\ u1' \in UniformValues
    /\ gen' = [gen EXCEPT !.draws = @ + 1]
    /\ pc' = "u2"
    /\ UNCHANGED <<params, total_payoff, underlying_price, total_days, time_step,
                   i, day, u2, adds, time_step_used, last>>

\* const double u2 = random_generator_uniform.getRandomValue();
MCDrawU2 ==
    /\ pc = "u2"
    /\ gen.alive
    /\ u2' \in UniformValues
    /\ gen' = [gen EXCEPT !.draws = @ + 1]
    /\ pc' = "gbm"
    /\ UNCHANGED <<params, total_payoff, underlying_price, total_days, time_step,
                   i, day, u1, adds, time_step_used, last>>

\* MCGbm with the payoff accumulated after each day
MCGbmAddsPayoff ==
    /\ pc = "gbm"
    /\ underlying_price' = GbmStep(underlying_price, params, time_step, u1, u2)
    /\ total_payoff' = DAdd(total_payoff, PathPayoff(underlying_price', params))
    /\ adds' = adds + 1
    /\ time_step_used' = TRUE
    /\ day' = day + 1
    /\ u1' = NoDraw
    /\ u2' = NoDraw
    /\ pc' = IF day + 1 < total_days THEN "u1" ELSE "payoff"
    /\ UNCHANGED <<params, gen, total_days, time_step, i, last>>

\* Box-Muller, drift, diffusion, the price update, ++day and the loop test
MCGbm ==
    /\ pc = "gbm"
    /\ underlying_price' = GbmStep(underlying_price, params, time_step, u1, u2)
    /\ time_step_used' = TRUE
    /\ day' = day + 1
    /\ u1' = NoDraw
    /\ u2' = NoDraw
    /\ pc' = IF day + 1 < total_days THEN "u1" ELSE "payoff"
    /\ UNCHANGED <<params, gen, total_payoff, total_days, time_step, i, adds, last>>

\* the payoff of the finished path, total_payoff += payoff, ++i
MCPayoff ==
    /\ pc = "payoff"
    /\ total_payoff' = DAdd(total_payoff, PathPayoff(underlying_price, params))
    /\ adds' = adds + 1
    /\ i' = i + 1
    /\ pc' = "path"
    /\ UNCHANGED <<params, gen, underlying_price, total_days, time_step, day, u1, u2,
                   time_step_used, last>>

\* MCReturn with a generator that outlives the call (a static or a member)
MCReturnKeepsGenerator ==
    /\ pc = "finish"
    /\ last' = [op |-> "calculateMonteCarlo", args |-> params,
                result |-> Value(DiscountedAverage(total_payoff, params)),
                total_days |-> total_days, time_step |-> time_step,
                time_step_used |-> time_step_used,
                paths |-> i, draws |-> gen.draws, adds |-> adds]
    /\ pc' = "idle"
    /\ params' = NoParams
    /\ total_payoff' = Fin(0)
    /\ underlying_price' = Fin(0)
    /\ total_days' = 0
    /\ time_step' = Fin(0)
    /\ i' = 0
    /\ day' = 0
    /\ adds' = 0
    /\ time_step_used' = FALSE
    /\ UNCHANGED <<gen, u1, u2>>

\* the average, the discount and the return: the locals and the generator
\* end with the call
MCReturn ==
    /\ pc = "finish"
    /\ last' = [op |-> "calculateMonteCarlo", args |-> params,
                result |-> Value(DiscountedAverage(total_payoff, params)),
                total_days |-> total_days, time_step |-> time_step,
                time_step_used |-> time_step_used,
                paths |-> i, draws |-> gen.draws, adds |-> adds]
    /\ pc' = "idle"
    /\ params' = NoParams
    /\ gen' = NoGenerator
    /\ total_payoff' = Fin(0)
    /\ underlying_price' = Fin(0)
    /\ total_days' = 0
    /\ time_step' = Fin(0)
    /\ i' = 0
    /\ day' = 0
    /\ adds' = 0
    /\ time_step_used' = FALSE
    /\ UNCHANGED <<u1, u2>>

MCRun == MCPathLoop \/ MCDrawU1 \/ MCDrawU2 \/ MCGbm \/ MCPayoff \/ MCReturn

Next ==
    \/ DoBlackScholes
    \/ DoGreeks
    \/ MCEnter
    \/ MCPathLoop
    \/ MCDrawU1
    \/ MCDrawU2
    \/ MCGbm
    \/ MCPayoff
    \/ MCReturn
    \/ TakeResult

Spec == Init /\ [][Next]_vars

\* a call that has started keeps executing: single-threaded, no suspension
LiveSpec == Spec /\ WF_vars(MCRun)

\* ------------------------------------- calls of Option / CalculateStrategy
DoCalculatePayoff ==
    /\ Idle
    /\ \E opt \in Options, spot \in Spots :
         last' = [op |-> "calculatePayoff", option |-> opt, spot |-> spot,
                  result |-> Value(calculatePayoff(opt, spot))]
    /\ UNCHANGED locals

DoPutSpread ==
    /\ Idle
    /\ \E a \in Options, b \in Options, spot \in Spots :
         last' = [op |-> "getPutSpread", legs |-> <<a, b>>, spot |-> spot,
                  result |-> getPutSpread(a, b, spot)]
    /\ UNCHANGED locals

DoCallSpread ==
    /\ Idle
    /\ \E a \in Options, b \in Options, spot \in Spots :
         last' = [op |-> "getCallSpread", legs |-> <<a, b>>, spot |-> spot,
                  result |-> getCallSpread(a, b, spot)]
    /\ UNCHANGED locals

DoButterfly ==
    /\ Idle
    /\ \E a \in Options, b \in Options, c \in Options, spot \in Spots :
         last' = [op |-> "getButterfly", legs |-> <<a, b, c>>, spot |-> spot,
                  result |-> getButterfly(a, b, c, spot)]
    /\ UNCHANGED locals

DoStrangle ==
    /\ Idle
    /\ \E a \in Options, b \in Options, spot \in Spots :
         last' = [op |-> "getStrangle", legs |-> <<a, b>>, spot |-> spot,
                  result |-> getStrangle(a, b, spot)]
    /\ UNCHANGED locals

DoStraddle ==
    /\ Idle
    /\ \E a \in Options, b \in Options, spot \in Spots :
         last' = [op |-> "getStraddle", legs |-> <<a, b>>, spot |-> spot,
                  result |-> getStraddle(a, b, spot)]
    /\ UNCHANGED locals

NextOption ==
    \/ DoCalculatePayoff
    \/ DoPutSpread
    \/ DoCallSpread
    \/ DoButterfly
    \/ DoStrangle
    \/ DoStraddle
    \/ TakeResult

OptionSpec == Init /\ [][NextOption]_vars

\* =====================================================================
\* Properties
\* =====================================================================

\* C1: for every GreeksParams and every Greek selector of the enumeration,
\* calculateGreeks throws the validation error whenever time <= 0 or
\* volatility <= 0, and returns a number only when time > 0 and
\* volatility > 0.
C1_GreeksValidation ==
    (last.op = "calculateGreeks" /\ last.greek \in Greeks) =>
        /\ (last.args.time <= 0 \/ last.args.volatility <= 0)
               => last.result.kind = "runtime_error"
        /\ last.result.kind = "value"
               => (last.args.time > 0 /\ last.args.volatility > 0)

C1_Witness ==
    /\ last.op = "calculateGreeks"
    /\ last.greek = "Vega"
    /\ last.args.time > 0
    /\ last.args.volatility = 0
    /\ last.result.kind = "runtime_error"

\* C2: calculatePayoff(spot) is max(spot - strike, 0) - premium for a Call
\* and max(strike - spot, 0) - premium for a Put, never fails, and is
\* exactly -premium for both types when spot = strike.
C2_PayoffFormula ==
    (last.op = "calculatePayoff" /\ last.option.option_type_ \in OptionType) =>
        LET strike == last.option.strike_
            premium == last.option.premium_
            spot == last.spot
            intrinsic == IF last.option.option_type_ = "Call"
                         THEN (IF spot > strike THEN spot - strike ELSE 0)
                         ELSE (IF strike > spot THEN strike - spot ELSE 0)
        IN /\ last.result.kind = "value"
           /\ last.result.val = intrinsic - premium
           /\ spot = strike => last.result.val = 0 - premium

C2_Witness ==
    /\ last.op = "calculatePayoff"
    /\ last.option.option_type_ = "Put"
    /\ last.option.premium_ = 1
    /\ last.spot < last.option.strike_
    /\ last.result.val = last.option.strike_ - last.spot - 1

\* the payoff of one leg as the specification states it
LegPayoff(opt, spot) ==
    (IF opt.option_type_ = "Call"
     THEN (IF spot > opt.strike_ THEN spot - opt.strike_ ELSE 0)
     ELSE (IF opt.strike_ > spot THEN opt.strike_ - spot ELSE 0)) - opt.premium_

StrategyOutcome(precondition, payoff) ==
    /\ ~precondition => last.result.kind = "runtime_error"
    /\ precondition => (last.result.kind = "value" /\ last.result.val = payoff)

\* C3: every strategy combinator throws the validation error when its
\* strike ordering is violated (put spread: long > short; call spread:
\* long < short; butterfly: wing1 < body < wing2; strangle: put < call;
\* straddle: put = call) and otherwise returns the signed combination of
\* the legs' payoffs.
C3_StrategyPreconditions ==
    LET a == last.legs[1]
        b == last.legs[2]
        c == last.legs[3]
        s == last.spot
    IN /\ last.op = "getPutSpread" =>
              StrategyOutcome(a.strike_ > b.strike_, LegPayoff(a, s) - LegPayoff(b, s))
       /\ last.op = "getCallSpread" =>
              StrategyOutcome(a.strike_ < b.strike_, LegPayoff(a, s) - LegPayoff(b, s))
       /\ last.op = "getButterfly" =>
              StrategyOutcome(a.strike_ < b.strike_ /\ b.strike_ < c.strike_,
                              LegPayoff(a, s) - 2 * LegPayoff(b, s) + LegPayoff(c, s))
       /\ last.op = "getStrangle" =>
              StrategyOutcome(a.strike_ < b.strike_, LegPayoff(a, s) + LegPayoff(b, s))
       /\ last.op = "getStraddle" =>
              StrategyOutcome(a.strike_ = b.strike_, LegPayoff(a, s) + LegPayoff(b, s))

C3_Witness ==
    /\ last.op = "getButterfly"
    /\ last.legs[1].strike_ < last.legs[2].strike_
    /\ last.legs[2].strike_ = last.legs[3].strike_
    /\ last.result.kind = "runtime_error"

\* C4: an out-of-range selector is reported as an invalid-argument error:
\* an option_type that is neither Call nor Put in calculateBlackScholes,
\* calculateGreeks (valid time and volatility) and calculateMonteCarlo, and
\* a Greek selector outside the enumeration in calculateGreeks.
C4_InvalidSelectorReported ==
    /\ (last.op = "calculateBlackScholes" /\ last.args.option_type \notin OptionType)
           => last.result.kind = "invalid_argument"
    /\ (/\ last.op = "calculateGreeks"
        /\ last.args.time > 0
        /\ last.args.volatility > 0
        /\ (last.args.option_type \notin OptionType \/ last.greek \notin Greeks))
           => last.result.kind = "invalid_argument"
    /\ (last.op = "calculateMonteCarlo" /\ last.args.option_type \notin OptionType)
           => last.result.kind = "invalid_argument"

\* C5: every uniform sample u1 and u2 fed into the Box-Muller transform lies
\* strictly inside (0,1); u1 is never 0, so ln(u1) is finite in every step.
C5_SamplesInOpenInterval ==
    /\ pc \in {"u2", "gbm"} =>
           (u1 > 0 /\ u1 < UGrid /\ LogUniform(u1).k = "fin")
    /\ pc = "gbm" => (u2 > 0 /\ u2 < UGrid)

\* the intrinsic payoff at the initial price, as an integer
Intrinsic(p) ==
    CASE p.option_type = "Call" ->
             IF p.underlying_price > p.strike_price
             THEN p.underlying_price - p.strike_price ELSE 0
      [] p.option_type = "Put" ->
             IF p.strike_price > p.underlying_price
             THEN p.strike_price - p.underlying_price ELSE 0
      [] OTHER -> 0

\* C6 as stated: when time > 0 and total_days = 0, the division by zero that
\* derives time_step decides the outcome: the returned value depends on
\* time_step.
C6_DivisionDecidesOutcome ==
    (last.op = "calculateMonteCarlo" /\ last.args.time > 0 /\ last.total_days = 0)
        => last.time_step_used

\* C6 amended: when time > 0 and total_days = 0, time_step is derived by a
\* division by zero but is never read, because the day loop runs zero times;
\* the returned value is the discounted mean of the intrinsic payoff at
\* params.underlying_price (NaN when number_of_simulations = 0), whatever
\* the division produced.
C6_ZeroDaysIgnoresTimeStep ==
    (last.op = "calculateMonteCarlo" /\ last.args.time > 0 /\ last.total_days = 0) =>
        /\ last.time_step \in TimeStepOutcomes(last.args.time, 0)
        /\ ~last.time_step_used
        /\ last.draws = 0
        /\ last.result.kind = "value"
        /\ last.result.val.average_payoff =
               IF last.args.number_of_simulations = 0
               THEN NaN
               ELSE Fin(Intrinsic(last.args))

C6_Witness ==
    /\ last.op = "calculateMonteCarlo"
    /\ last.args.time = 1
    /\ last.total_days = 0
    /\ last.time_step = PosInf
    /\ last.args.number_of_simulations = 2
    /\ last.args.option_type = "Call"
    /\ last.result.val.average_payoff = Fin(2)

LocalsGone ==
    /\ params = NoParams
    /\ total_payoff = Fin(0)
    /\ underlying_price = Fin(0)
    /\ total_days = 0
    /\ time_step = Fin(0)
    /\ i = 0
    /\ adds = 0
    /\ u1 = NoDraw
    /\ u2 = NoDraw

\* C7: no mutable state is carried from one evaluator call to the next:
\* calculateMonteCarlo constructs its random source at entry, takes every
\* draw from that instance, and the instance ends with the call;
\* calculateBlackScholes and calculateGreeks touch nothing but their
\* arguments and result.
C7_NoStateAcrossCalls ==
    /\ [](pc = "idle" => (gen = NoGenerator /\ LocalsGone))
    /\ [][(pc = "idle" /\ pc' # "idle") => gen' = NewRandomGenerator]_vars
    /\ [][(pc # "idle" /\ pc' # "idle") => gen'.alive]_vars
    /\ [][(u1' # u1 /\ u1' # NoDraw) \/ (u2' # u2 /\ u2' # NoDraw)
              => (gen.alive /\ gen' = [gen EXCEPT !.draws = @ + 1])]_vars
    /\ [][(last.op = "none"
           /\ last'.op \in {"calculateBlackScholes", "calculateGreeks"})
              => UNCHANGED locals]_vars

C7_Witness ==
    /\ pc = "idle"
    /\ last.op = "calculateMonteCarlo"
    /\ last.draws = 8
    /\ gen = NoGenerator

C9_PathStartsAtInitialPrice ==
    /\ []((day = 0 /\ pc \in {"u1", "u2", "gbm", "payoff"})
              => underlying_price = Fin(params.underlying_price))
    /\ [][(pc = "gbm")
              => (underlying_price' = GbmStep(underlying_price, params, time_step, u1, u2))]_vars
    /\ [][(pc \in {"u1", "u2", "payoff"}) => (underlying_price' = underlying_price)]_vars

\* the second path starts after a first path that ended at 16, not at 8
C9_Witness ==
    /\ pc = "u1"
    /\ day = 0
    /\ i = 1
    /\ params.option_type = "Call"
    /\ total_payoff = Fin(10)
    /\ underlying_price = Fin(8)

\* C10: every calculateMonteCarlo call returns; the path counter and the
\* day counter only increase, up to their bounds, the day counter being
\* reset only at the start of a path; no error is raised, whatever
\* number_of_simulations (0 included), volatility and time.
C10_Terminates ==
    /\ (pc # "idle") ~> (pc = "idle")
    /\ [][(pc = "gbm") => (day' = day + 1 /\ day' <= total_days)]_vars
    /\ [][(pc = "payoff") => (i' = i + 1 /\ i' <= params.number_of_simulations)]_vars
    /\ [][(pc # "idle" /\ pc' # "idle" /\ pc # "payoff") => i' = i]_vars
    /\ [][(pc \notin {"idle", "finish", "gbm"} /\ day' # day) => (pc = "path" /\ day' = 0)]_vars
    /\ [](last.op = "calculateMonteCarlo" => last.result.kind = "value")

C10_Witness ==
    /\ last.op = "calculateMonteCarlo"
    /\ last.args.number_of_simulations = 0
    /\ last.args.volatility = 0
    /\ last.args.time = 0
    /\ last.result.kind = "value"
    /\ last.result.val.average_payoff = NaN

\* a double that compares with the others (not NaN), and 0 <= a
Ordered(a) == a.k # "nan"
NonNegative(a) == Ordered(a) /\ ~DLess(a, Fin(0))

\* C11: as long as the draws yield ordered price values, every path's
\* payoff is >= 0, total_payoff starts at 0 and never decreases from one
\* path to the next, so total_payoff >= 0 in every state of the simulation
\* loop, for every option type.
C11_TotalPayoffNonNegative ==
    /\ []((pc = "path" /\ i = 0) => total_payoff = Fin(0))
    /\ []((pc # "idle" /\ Ordered(total_payoff)) => NonNegative(total_payoff))
    /\ [][(pc = "payoff" /\ Ordered(underlying_price) /\ Ordered(total_payoff))
              => /\ NonNegative(PathPayoff(underlying_price, params))
                 /\ NonNegative(total_payoff')
                 /\ ~DLess(total_payoff', total_payoff)]_vars
    /\ [][(pc \notin {"idle", "payoff", "finish"})
              => (total_payoff' = total_payoff)]_vars
    /\ []((pc # "idle" /\ ~Ordered(total_payoff)) => adds > 0)

\* two Call paths have ended at 16 and at 32: payoffs 10 and 26
C11_Witness ==
    /\ pc = "path"
    /\ i = 2
    /\ params.option_type = "Call"
    /\ total_payoff = Fin(36)

====
